---- MODULE Spec2Model ----
(***************************************************************************)
(* Graph construction of the two pix2pix generators of                     *)
(* pix2pix/networks/generator.py: make_generator_ae and UNETGenerator.     *)
(* A layer call appends one node to the graph under construction; a tensor *)
(* is the index of the node that produced it.  Shapes are channels-first   *)
(* (channel, height, width), as the docstring of UNETGenerator states.     *)
(***************************************************************************)
EXTENDS Integers, Sequences, FiniteSets

VARIABLES
    input_img_dim,      \* (channel, height, width) handed to both builders
    num_output,         \* num_output_filters / num_output_channels
    pc,                 \* the function the driver is in: "idle", "ae", "unet"
    ae_status,          \* make_generator_ae: "new", "running", "returned"
    ae_pc,              \* position inside make_generator_ae
    ae_i,               \* position of the running for loop in filter_sizes
    ae_layers,          \* layers created by make_generator_ae, in order
    encoder, decoder, generator,   \* locals of make_generator_ae (tensors)
    unet_status,        \* UNETGenerator: "new", "running", "returned", "raised"
    unet_pc,            \* index of the next statement of UNETGenerator
    unet_layers,        \* layers created by UNETGenerator, in order
    unet_env,           \* locals of UNETGenerator: variable name -> tensor
    unet_generator      \* the Model UNETGenerator returns

vars == <<input_img_dim, num_output, pc, ae_status, ae_pc, ae_i, ae_layers,
          encoder, decoder, generator,
          unet_status, unet_pc, unet_layers, unet_env, unet_generator>>

ae_vars == <<ae_status, ae_pc, ae_i, ae_layers, encoder, decoder, generator>>
unet_vars == <<unet_status, unet_pc, unet_layers, unet_env, unet_generator>>

(***************************************************************************)
(* Bounds of the inputs.                                                   *)
(***************************************************************************)
MaxMult == 2
MaxOff == 1
MaxOutChannels == 2

\* Heights and widths: the multiples of 256 up to 256 * MaxMult and their
\* neighbours, plus sizes far from any multiple of 256.
Sizes ==
    {256 * m + d : m \in 1..MaxMult, d \in (0 - MaxOff)..MaxOff} \cup {1, 128}

InputChannels == {3}
OutChannels == 1..MaxOutChannels

(***************************************************************************)
(* Layers.  Every layer is one record; a field a layer kind does not have  *)
(* keeps its default.  Fractions are pairs <<numerator, denominator>>.     *)
(***************************************************************************)
NoTensor == 0 - 1

Layer(kind, var, inputs, shape) ==
    [kind |-> kind, var |-> var, inputs |-> inputs, shape |-> shape,
     filters |-> 0, kernel_size |-> <<>>, strides |-> <<>>, padding |-> "",
     size |-> <<>>, rate |-> <<>>, activation |-> "", alpha |-> <<>>,
     axis |-> 0, name |-> "", reads |-> {}]

\* faulty variant: rounds down, as 'valid' padding would
CeilDiv_floor(s, k) == s \div k

\* ceil(s / k) for positive k
CeilDiv(s, k) == (s + k - 1) \div k

\* Output shape of a 'same'-padded convolution.
ConvShape(in, filters, strides) ==
    <<filters, CeilDiv(in[2], strides[1]), CeilDiv(in[3], strides[2])>>

UpSamplingShape(in, size) == <<in[1], in[2] * size[1], in[3] * size[2]>>

\* Concatenate(axis=1): all axes but the channel axis must agree.
ConcatCompatible(a, b) == a[2] = b[2] /\ a[3] = b[3]
ConcatShape(a, b) == <<a[1] + b[1], a[2], a[3]>>

Conv2D(var, x, xshape, filters, strides, reads) ==
    [Layer("Conv2D", var, <<x>>, ConvShape(xshape, filters, strides))
        EXCEPT !.filters = filters, !.kernel_size = <<4, 4>>,
               !.padding = "same", !.strides = strides, !.reads = reads]

BatchNormalization(var, x, xshape, name, axis) ==
    [Layer("BatchNormalization", var, <<x>>, xshape)
        EXCEPT !.name = name, !.axis = axis]

LeakyReLU(var, x, xshape) ==
    [Layer("LeakyReLU", var, <<x>>, xshape) EXCEPT !.alpha = <<2, 10>>]

Activation(var, x, xshape, fn, alpha) ==
    [Layer("Activation", var, <<x>>, xshape)
        EXCEPT !.activation = fn, !.alpha = alpha]

UpSampling2D(var, x, xshape) ==
    [Layer("UpSampling2D", var, <<x>>, UpSamplingShape(xshape, <<2, 2>>))
        EXCEPT !.size = <<2, 2>>]

Dropout(var, x, xshape) ==
    [Layer("Dropout", var, <<x>>, xshape) EXCEPT !.rate = <<5, 10>>]

Concatenate(var, a, ashape, b, bshape) ==
    [Layer("Concatenate", var, <<a, b>>, ConcatShape(ashape, bshape))
        EXCEPT !.axis = 1]

InputLayer(var, shape, name, reads) ==
    [Layer("Input", var, <<>>, shape) EXCEPT !.name = name, !.reads = reads]

(***************************************************************************)
(* make_generator_ae(input_layer, num_output_filters)                      *)
(* The tensor input_layer is tensor 0; its shape is input_img_dim.         *)
(***************************************************************************)
stride == 2
\* faulty variant: a second stage of 64 filters
EncoderFilterSizes_two64 == <<64, 64, 128, 256, 512, 512, 512, 512>>
EncoderFilterSizes == <<64, 128, 256, 512, 512, 512, 512, 512>>
\* faulty variant: one decoder block short
DecoderFilterSizes_short == <<512, 512, 512, 512, 256, 128, 64>>
DecoderFilterSizes == <<512, 512, 512, 512, 512, 256, 128, 64>>

AEShape(x) == IF x = 0 THEN input_img_dim ELSE ae_layers[x].shape

\* faulty variant: normalizes every stage
NeedsBatchNorm_always(filter_size) == TRUE

\* the test of line 33
NeedsBatchNorm(filter_size) == filter_size # 64

AE_Call ==
    /\ pc = "idle" /\ ae_status = "new"
    /\ pc' = "ae" /\ ae_status' = "running"
    /\ encoder' = 0
    /\ ae_i' = 1
    /\ ae_pc' = "enc_conv"
    /\ UNCHANGED <<input_img_dim, num_output, ae_layers, decoder, generator>>
    /\ UNCHANGED unet_vars

AEStep(next_pc, layer) ==
    /\ ae_layers' = Append(ae_layers, layer)
    /\ ae_pc' = next_pc
    /\ UNCHANGED <<input_img_dim, num_output, pc, ae_status>>
    /\ UNCHANGED unet_vars

AE_EncConv ==
    /\ pc = "ae" /\ ae_pc = "enc_conv"
    /\ AEStep("enc_if",
              Conv2D("encoder", encoder, AEShape(encoder),
                     EncoderFilterSizes[ae_i], <<stride, stride>>, {}))
    /\ encoder' = Len(ae_layers) + 1
    /\ UNCHANGED <<ae_i, decoder, generator>>

AE_EncBatchNorm ==
    /\ pc = "ae" /\ ae_pc = "enc_if"
    /\ NeedsBatchNorm(EncoderFilterSizes[ae_i])
    /\ AEStep("enc_act",
              BatchNormalization("encoder", encoder, AEShape(encoder), "", 0 - 1))
    /\ encoder' = Len(ae_layers) + 1
    /\ UNCHANGED <<ae_i, decoder, generator>>

AE_EncSkipBatchNorm ==
    /\ pc = "ae" /\ ae_pc = "enc_if"
    /\ ~NeedsBatchNorm(EncoderFilterSizes[ae_i])
    /\ ae_pc' = "enc_act"
    /\ UNCHANGED <<input_img_dim, num_output, pc, ae_status, ae_i, ae_layers,
                   encoder, decoder, generator>>
    /\ UNCHANGED unet_vars

AE_EncActivation ==
    /\ pc = "ae" /\ ae_pc = "enc_act"
    /\ AEStep(IF ae_i < Len(EncoderFilterSizes) THEN "enc_conv" ELSE "dec_init",
              Activation("encoder", encoder, AEShape(encoder),
                         "LeakyReLU", <<2, 10>>))
    /\ encoder' = Len(ae_layers) + 1
    /\ ae_i' = ae_i + 1
    /\ UNCHANGED <<decoder, generator>>

AE_DecInit ==
    /\ pc = "ae" /\ ae_pc = "dec_init"
    /\ decoder' = encoder
    /\ ae_i' = 1
    /\ ae_pc' = "dec_up"
    /\ UNCHANGED <<input_img_dim, num_output, pc, ae_status, ae_layers,
                   encoder, generator>>
    /\ UNCHANGED unet_vars

AE_DecUpSampling ==
    /\ pc = "ae" /\ ae_pc = "dec_up"
    /\ AEStep("dec_conv", UpSampling2D("decoder", decoder, AEShape(decoder)))
    /\ decoder' = Len(ae_layers) + 1
    /\ UNCHANGED <<ae_i, encoder, generator>>

AE_DecConv ==
    /\ pc = "ae" /\ ae_pc = "dec_conv"
    /\ AEStep("dec_bn",
              Conv2D("decoder", decoder, AEShape(decoder),
                     DecoderFilterSizes[ae_i], <<1, 1>>, {}))
    /\ decoder' = Len(ae_layers) + 1
    /\ UNCHANGED <<ae_i, encoder, generator>>

AE_DecBatchNorm ==
    /\ pc = "ae" /\ ae_pc = "dec_bn"
    /\ AEStep("dec_do",
              BatchNormalization("decoder", decoder, AEShape(decoder), "", 0 - 1))
    /\ decoder' = Len(ae_layers) + 1
    /\ UNCHANGED <<ae_i, encoder, generator>>

AE_DecDropout ==
    /\ pc = "ae" /\ ae_pc = "dec_do"
    /\ AEStep("dec_act", Dropout("decoder", decoder, AEShape(decoder)))
    /\ decoder' = Len(ae_layers) + 1
    /\ UNCHANGED <<ae_i, encoder, generator>>

AE_DecActivation ==
    /\ pc = "ae" /\ ae_pc = "dec_act"
    /\ AEStep(IF ae_i < Len(DecoderFilterSizes) THEN "dec_up" ELSE "out_conv",
              Activation("decoder", decoder, AEShape(decoder), "relu", <<>>))
    /\ decoder' = Len(ae_layers) + 1
    /\ ae_i' = ae_i + 1
    /\ UNCHANGED <<encoder, generator>>

AE_OutConv ==
    /\ pc = "ae" /\ ae_pc = "out_conv"
    /\ AEStep("out_act",
              Conv2D("decoder", decoder, AEShape(decoder),
                     num_output, <<1, 1>>, {"num_output_filters"}))
    /\ decoder' = Len(ae_layers) + 1
    /\ UNCHANGED <<ae_i, encoder, generator>>

AE_OutActivation ==
    /\ pc = "ae" /\ ae_pc = "out_act"
    /\ AEStep("return",
              Activation("generator", decoder, AEShape(decoder), "tanh", <<>>))
    /\ generator' = Len(ae_layers) + 1
    /\ UNCHANGED <<ae_i, encoder, decoder>>

AE_Return ==
    /\ pc = "ae" /\ ae_pc = "return"
    /\ pc' = "idle" /\ ae_status' = "returned"
    /\ ae_pc' = "done"
    /\ UNCHANGED <<input_img_dim, num_output, ae_i, ae_layers,
                   encoder, decoder, generator>>
    /\ UNCHANGED unet_vars

AENext ==
    \/ AE_Call
    \/ AE_EncConv
    \/ AE_EncBatchNorm
    \/ AE_EncSkipBatchNorm
    \/ AE_EncActivation
    \/ AE_DecInit
    \/ AE_DecUpSampling
    \/ AE_DecConv
    \/ AE_DecBatchNorm
    \/ AE_DecDropout
    \/ AE_DecActivation
    \/ AE_OutConv
    \/ AE_OutActivation
    \/ AE_Return

(***************************************************************************)
(* UNETGenerator(input_img_dim, num_output_channels)                       *)
(* The body is straight-line code: UNETProgram lists its statements in     *)
(* order, one stage of the source per definition.  A statement             *)
(*     target = Layer(...)(args)                                           *)
(* is the record of its layer kind, the local it assigns, the locals it    *)
(* reads and the keyword arguments it passes.                              *)
(***************************************************************************)
bn_axis == 1

UNETLocals ==
    {"input_layer", "en_1", "en_2", "en_3", "en_4", "en_5", "en_6", "en_7",
     "en_8", "de_1", "de_2", "de_3", "de_4", "de_5", "de_6", "de_7", "de_8"}

Stmt(op, target, args) ==
    [op |-> op, target |-> target, args |-> args, filters |-> 0,
     filters_arg |-> "", strides |-> <<1, 1>>, name |-> "", activation |-> ""]

SConv2D(target, filters, strides, arg) ==
    [Stmt("Conv2D", target, <<arg>>) EXCEPT !.filters = filters, !.strides = strides]
\* a convolution whose filter count is a parameter of the function
SConv2DParam(target, param, arg) ==
    [Stmt("Conv2D", target, <<arg>>) EXCEPT !.filters_arg = param]
SBatchNormalization(target, name) ==
    [Stmt("BatchNormalization", target, <<target>>) EXCEPT !.name = name]
SLeakyReLU(target) == Stmt("LeakyReLU", target, <<target>>)
SUpSampling2D(target, arg) == Stmt("UpSampling2D", target, <<arg>>)
SDropout(target) == Stmt("Dropout", target, <<target>>)
SConcatenate(target, other) == Stmt("Concatenate", target, <<target, other>>)
SActivation(target, fn) ==
    [Stmt("Activation", target, <<target>>) EXCEPT !.activation = fn]

StmtInput ==
    <<[Stmt("Input", "input_layer", <<>>) EXCEPT !.name = "unet_input"]>>

Encoder1 ==
    <<SConv2D("en_1", 64, <<stride, stride>>, "input_layer"),
      SLeakyReLU("en_1")>>
Encoder2 ==
    <<SConv2D("en_2", 128, <<stride, stride>>, "en_1"),
      SBatchNormalization("en_2", "gen_en_bn_2"),
      SLeakyReLU("en_2")>>
Encoder3 ==
    <<SConv2D("en_3", 256, <<stride, stride>>, "en_2"),
      SBatchNormalization("en_3", "gen_en_bn_3"),
      SLeakyReLU("en_3")>>
Encoder4 ==
    <<SConv2D("en_4", 512, <<stride, stride>>, "en_3"),
      SBatchNormalization("en_4", "gen_en_bn_4"),
      SLeakyReLU("en_4")>>
Encoder5 ==
    <<SConv2D("en_5", 1024, <<stride, stride>>, "en_4"),
      SBatchNormalization("en_5", "gen_en_bn_5"),
      SLeakyReLU("en_5")>>
Encoder6 ==
    <<SConv2D("en_6", 512, <<stride, stride>>, "en_5"),
      SBatchNormalization("en_6", "gen_en_bn_6"),
      SLeakyReLU("en_6")>>
Encoder7 ==
    <<SConv2D("en_7", 512, <<stride, stride>>, "en_6"),
      SBatchNormalization("en_7", "gen_en_bn_7"),
      SLeakyReLU("en_7")>>
Encoder8 ==
    <<SConv2D("en_8", 512, <<stride, stride>>, "en_7"),
      SBatchNormalization("en_8", "gen_en_bn_8"),
      SLeakyReLU("en_8")>>

Decoder1 ==
    <<SUpSampling2D("de_1", "en_8"),
      SConv2D("de_1", 512, <<1, 1>>, "de_1"),
      SBatchNormalization("de_1", "gen_de_bn_1"),
      SDropout("de_1"),
      SConcatenate("de_1", "en_7"),
      SActivation("de_1", "relu")>>
\* faulty variant: the skip tensor first
Decoder2_swapped ==
    <<SUpSampling2D("de_2", "de_1"),
      SConv2D("de_2", 512, <<1, 1>>, "de_2"),
      SBatchNormalization("de_2", "gen_de_bn_2"),
      SDropout("de_2"),
      Stmt("Concatenate", "de_2", <<"en_6", "de_2">>),
      SActivation("de_2", "relu")>>
Decoder2 ==
    <<SUpSampling2D("de_2", "de_1"),
      SConv2D("de_2", 512, <<1, 1>>, "de_2"),
      SBatchNormalization("de_2", "gen_de_bn_2"),
      SDropout("de_2"),
      SConcatenate("de_2", "en_6"),
      SActivation("de_2", "relu")>>
Decoder3 ==
    <<SUpSampling2D("de_3", "de_2"),
      SConv2D("de_3", 1024, <<1, 1>>, "de_3"),
      SBatchNormalization("de_3", "gen_de_bn_3"),
      SDropout("de_3"),
      SConcatenate("de_3", "en_5"),
      SActivation("de_3", "relu")>>
\* faulty variant: the activation before the concatenation
Decoder4_activationFirst ==
    <<SUpSampling2D("de_4", "de_3"),
      SConv2D("de_4", 512, <<1, 1>>, "de_4"),
      SBatchNormalization("de_4", "gen_de_bn_4"),
      SDropout("de_4"),
      SActivation("de_4", "relu"),
      SConcatenate("de_4", "en_4")>>
Decoder4 ==
    <<SUpSampling2D("de_4", "de_3"),
      SConv2D("de_4", 512, <<1, 1>>, "de_4"),
      SBatchNormalization("de_4", "gen_de_bn_4"),
      SDropout("de_4"),
      SConcatenate("de_4", "en_4"),
      SActivation("de_4", "relu")>>
\* faulty variant: no dropout
Decoder5_noDropout ==
    <<SUpSampling2D("de_5", "de_4"),
      SConv2D("de_5", 256, <<1, 1>>, "de_5"),
      SBatchNormalization("de_5", "gen_de_bn_5"),
      SConcatenate("de_5", "en_3"),
      SActivation("de_5", "relu")>>
Decoder5 ==
    <<SUpSampling2D("de_5", "de_4"),
      SConv2D("de_5", 256, <<1, 1>>, "de_5"),
      SBatchNormalization("de_5", "gen_de_bn_5"),
      SDropout("de_5"),
      SConcatenate("de_5", "en_3"),
      SActivation("de_5", "relu")>>
Decoder6 ==
    <<SUpSampling2D("de_6", "de_5"),
      SConv2D("de_6", 128, <<1, 1>>, "de_6"),
      SBatchNormalization("de_6", "gen_de_bn_6"),
      SDropout("de_6"),
      SConcatenate("de_6", "en_2"),
      SActivation("de_6", "relu")>>
Decoder7 ==
    <<SUpSampling2D("de_7", "de_6"),
      SConv2D("de_7", 64, <<1, 1>>, "de_7"),
      SBatchNormalization("de_7", "gen_de_bn_7"),
      SDropout("de_7"),
      SConcatenate("de_7", "en_1"),
      SActivation("de_7", "relu")>>
\* faulty variant: always 3 output channels
Decoder8_threeChannels ==
    <<SUpSampling2D("de_8", "de_7"),
      SConv2D("de_8", 3, <<1, 1>>, "de_8"),
      SActivation("de_8", "tanh")>>
Decoder8 ==
    <<SUpSampling2D("de_8", "de_7"),
      SConv2DParam("de_8", "num_output_channels", "de_8"),
      SActivation("de_8", "tanh")>>

StmtModel == <<Stmt("Model", "unet_generator", <<"input_layer", "de_8">>)>>
StmtReturn == <<Stmt("return", "", <<"unet_generator">>)>>

UNETProgram ==
    StmtInput
    \o Encoder1 \o Encoder2 \o Encoder3 \o Encoder4
    \o Encoder5 \o Encoder6 \o Encoder7 \o Encoder8
    \o Decoder1 \o Decoder2 \o Decoder3 \o Decoder4
    \o Decoder5 \o Decoder6 \o Decoder7 \o Decoder8
    \o StmtModel \o StmtReturn

NoModel == [inputs |-> <<>>, outputs |-> <<>>, name |-> ""]

UStmt == UNETProgram[unet_pc]
\* the tensor the k-th argument of the current statement names
UArg(k) == unet_env[UStmt.args[k]]
UShape(x) == unet_layers[x].shape

UAt(op) ==
    /\ pc = "unet"
    /\ unet_pc \in 1..Len(UNETProgram)
    /\ UStmt.op = op

\* target = <layer>: the layer joins the graph and the local is rebound
UAssign(layer) ==
    /\ unet_layers' = Append(unet_layers, layer)
    /\ unet_env' = [unet_env EXCEPT ![UStmt.target] = Len(unet_layers) + 1]
    /\ unet_pc' = unet_pc + 1
    /\ UNCHANGED <<input_img_dim, num_output, pc, unet_status, unet_generator>>
    /\ UNCHANGED ae_vars

U_Call ==
    /\ pc = "idle" /\ unet_status = "new"
    /\ pc' = "unet" /\ unet_status' = "running"
    /\ unet_pc' = 1
    /\ UNCHANGED <<input_img_dim, num_output, unet_layers, unet_env, unet_generator>>
    /\ UNCHANGED ae_vars

U_Input ==
    /\ UAt("Input")
    /\ UAssign(InputLayer(UStmt.target, input_img_dim, UStmt.name, {"input_img_dim"}))

U_Conv2D ==
    /\ UAt("Conv2D")
    /\ LET byParam == UStmt.filters_arg = "num_output_channels"
           filters == IF byParam THEN num_output ELSE UStmt.filters
           reads == IF byParam THEN {UStmt.filters_arg} ELSE {}
       IN  UAssign(Conv2D(UStmt.target, UArg(1), UShape(UArg(1)),
                          filters, UStmt.strides, reads))

U_BatchNormalization ==
    /\ UAt("BatchNormalization")
    /\ UAssign(BatchNormalization(UStmt.target, UArg(1), UShape(UArg(1)),
                                  UStmt.name, bn_axis))

U_LeakyReLU ==
    /\ UAt("LeakyReLU")
    /\ UAssign(LeakyReLU(UStmt.target, UArg(1), UShape(UArg(1))))

U_UpSampling2D ==
    /\ UAt("UpSampling2D")
    /\ UAssign(UpSampling2D(UStmt.target, UArg(1), UShape(UArg(1))))

U_Dropout ==
    /\ UAt("Dropout")
    /\ UAssign(Dropout(UStmt.target, UArg(1), UShape(UArg(1))))

U_Concatenate ==
    /\ UAt("Concatenate")
    /\ ConcatCompatible(UShape(UArg(1)), UShape(UArg(2)))
    /\ UAssign(Concatenate(UStmt.target, UArg(1), UShape(UArg(1)),
                           UArg(2), UShape(UArg(2))))

\* Concatenate refuses inputs whose shapes differ off the concat axis:
\* the call raises and UNETGenerator returns nothing.
U_ConcatenateRaise ==
    /\ UAt("Concatenate")
    /\ ~ConcatCompatible(UShape(UArg(1)), UShape(UArg(2)))
    /\ pc' = "idle" /\ unet_status' = "raised"
    /\ UNCHANGED <<input_img_dim, num_output, unet_pc, unet_layers, unet_env,
                   unet_generator>>
    /\ UNCHANGED ae_vars

U_Activation ==
    /\ UAt("Activation")
    /\ UAssign(Activation(UStmt.target, UArg(1), UShape(UArg(1)),
                          UStmt.activation, <<>>))

U_Model ==
    /\ UAt("Model")
    /\ unet_generator' = [inputs |-> <<UArg(1)>>, outputs |-> <<UArg(2)>>,
                          name |-> "unet_generator"]
    /\ unet_pc' = unet_pc + 1
    /\ UNCHANGED <<input_img_dim, num_output, pc, unet_status, unet_layers, unet_env>>
    /\ UNCHANGED ae_vars

U_Return ==
    /\ UAt("return")
    /\ pc' = "idle" /\ unet_status' = "returned"
    /\ unet_pc' = unet_pc + 1
    /\ UNCHANGED <<input_img_dim, num_output, unet_layers, unet_env, unet_generator>>
    /\ UNCHANGED ae_vars

UNETNext ==
    \/ U_Call
    \/ U_Input
    \/ U_Conv2D
    \/ U_BatchNormalization
    \/ U_LeakyReLU
    \/ U_UpSampling2D
    \/ U_Dropout
    \/ U_Concatenate
    \/ U_ConcatenateRaise
    \/ U_Activation
    \/ U_Model
    \/ U_Return

Init ==
    /\ input_img_dim \in {<<c, h, w>> : c \in InputChannels, h \in Sizes, w \in Sizes}
    /\ num_output \in OutChannels
    /\ pc = "idle"
    /\ ae_status = "new" /\ ae_pc = "start" /\ ae_i = 0 /\ ae_layers = <<>>
    /\ encoder = NoTensor /\ decoder = NoTensor /\ generator = NoTensor
    /\ unet_status = "new" /\ unet_pc = 0 /\ unet_layers = <<>>
    /\ unet_env = [v \in UNETLocals |-> NoTensor]
    /\ unet_generator = NoModel

Next == AENext \/ UNETNext

Spec == Init /\ [][Next]_vars

(***************************************************************************)
(* Vocabulary of the properties: reading a finished graph.                 *)
(***************************************************************************)
\* the builder stands at its return statement: its graph is complete
AEDone == pc = "ae" /\ ae_pc = "return"
UDone == pc = "unet" /\ unet_pc = Len(UNETProgram)
\* the builder has returned
AEReturned == ae_status = "returned"
UReturned == unet_status = "returned"

IsActivation(l) == l.kind \in {"Activation", "LeakyReLU"}

\* LeakyReLU(alpha) as a layer and Activation(LeakyReLU(alpha)) are the same
\* activation kind
ActivationKind(l) ==
    IF l.kind = "LeakyReLU" THEN <<"LeakyReLU", l.alpha>>
    ELSE <<l.activation, l.alpha>>

\* A stage is a run of layers that ends with its activation.
StageEnds(layers) ==
    SelectSeq([i \in 1..Len(layers) |-> i], LAMBDA i : IsActivation(layers[i]))
NumStages(layers) == Len(StageEnds(layers))
StageHi(layers, k) == StageEnds(layers)[k]
StageLo(layers, k) ==
    LET lo == IF k = 1 THEN 1 ELSE StageHi(layers, k - 1) + 1
    IN  IF layers[lo].kind = "Input" THEN lo + 1 ELSE lo
StageIdx(layers, k) == StageLo(layers, k)..StageHi(layers, k)
StageKinds(layers, k) ==
    [j \in 1..(StageHi(layers, k) - StageLo(layers, k) + 1) |->
        layers[StageLo(layers, k) + j - 1].kind]
StageHas(layers, k, kind) == \E i \in StageIdx(layers, k) : layers[i].kind = kind
StageThe(layers, k, kind) == CHOOSE i \in StageIdx(layers, k) : layers[i].kind = kind

\* every layer of the stage consumes the layer before it, the first one src
StageChained(layers, k, src) ==
    \A i \in StageIdx(layers, k) :
        layers[i].inputs[1] = IF i = StageLo(layers, k) THEN src ELSE i - 1

\* the tensor a stage hands on (0: the input tensor of make_generator_ae)
StageOut(layers, k) == IF k = 0 THEN 0 ELSE StageHi(layers, k)

StageShape(layers, k) ==
    [upsample   |-> StageHas(layers, k, "UpSampling2D"),
     kernel_size |-> layers[StageThe(layers, k, "Conv2D")].kernel_size,
     strides    |-> layers[StageThe(layers, k, "Conv2D")].strides,
     padding    |-> layers[StageThe(layers, k, "Conv2D")].padding,
     norm       |-> StageHas(layers, k, "BatchNormalization"),
     dropout    |-> StageHas(layers, k, "Dropout"),
     activation |-> ActivationKind(layers[StageHi(layers, k)])]
StageFilters(layers, k) == layers[StageThe(layers, k, "Conv2D")].filters
StageConfig(layers, k) ==
    <<StageShape(layers, k), StageFilters(layers, k)>>

Consumers(layers, x) ==
    {i \in DOMAIN layers : \E j \in DOMAIN layers[i].inputs : layers[i].inputs[j] = x}

EnNames == <<"en_1", "en_2", "en_3", "en_4", "en_5", "en_6", "en_7", "en_8">>
DeNames == <<"de_1", "de_2", "de_3", "de_4", "de_5", "de_6", "de_7", "de_8">>
UOf(v, kind) ==
    {i \in DOMAIN unet_layers :
        unet_layers[i].var = v /\ unet_layers[i].kind = kind}
EncoderOutputs == {unet_env[EnNames[j]] : j \in 1..8}

LeakyReLU02 == <<"LeakyReLU", <<2, 10>>>>

(***************************************************************************)
(* C1                                                                      *)
(***************************************************************************)
\* decoder stage k concatenates its own tensor with an encoder stage output
\* and its activation consumes the concatenation
HasSkip(k) ==
    \E c \in UOf(DeNames[k], "Concatenate") :
        /\ Len(unet_layers[c].inputs) = 2
        /\ unet_layers[unet_layers[c].inputs[1]].var = DeNames[k]
        /\ unet_layers[c].inputs[2] \in EncoderOutputs
        /\ \E a \in UOf(DeNames[k], "Activation") : unet_layers[a].inputs = <<c>>
        /\ \A a \in UOf(DeNames[k], "Activation") : c < a

\* C1 as stated: in the graph UNETGenerator builds, every decoder stage
\* de_1 .. de_8 has a Concatenate of its own tensor with an encoder stage
\* output, placed before the stage's activation, which consumes it.
C1_AllEightStagesSkip == UDone => \A k \in 1..8 : HasSkip(k)

\* C1 amended: the decoder stages de_1 .. de_7 each concatenate their own
\* tensor with an encoder stage output before their activation; de_8, the
\* output stage, has no Concatenate: its tanh consumes its convolution.
C1_SevenStagesSkip ==
    UDone =>
        /\ \A k \in 1..7 : HasSkip(k)
        /\ UOf("de_8", "Concatenate") = {}
        /\ \E a \in UOf("de_8", "Activation") :
               unet_layers[a].inputs = <<StageThe(unet_layers, 16, "Conv2D")>>
        /\ Cardinality({i \in DOMAIN unet_layers :
                            unet_layers[i].kind = "Concatenate"}) = 7

C1_Witness == UDone /\ HasSkip(7) /\ ~HasSkip(8)

(***************************************************************************)
(* C3                                                                      *)
(***************************************************************************)
AEEncoderStages ==
    {k \in 1..NumStages(ae_layers) :
        \A i \in StageIdx(ae_layers, k) : ae_layers[i].var = "encoder"}

\* the stage is a stride-2 4x4 convolution, then the layers `mid`, then
\* LeakyReLU(0.2), each consuming the one before, the first the stage before
AEEncoderBlock(k, mid) ==
    /\ StageKinds(ae_layers, k) = <<"Conv2D">> \o mid \o <<"Activation">>
    /\ ae_layers[StageLo(ae_layers, k)].kernel_size = <<4, 4>>
    /\ ae_layers[StageLo(ae_layers, k)].strides = <<2, 2>>
    /\ ActivationKind(ae_layers[StageHi(ae_layers, k)]) = LeakyReLU02
    /\ StageChained(ae_layers, k, StageOut(ae_layers, k - 1))

\* C3 as stated: the encoder of make_generator_ae is exactly 8 blocks, every
\* one a stride-2 4x4 convolution, a normalization and LeakyReLU(0.2) in that
\* order, block 1 consuming input_layer and block i+1 block i.
C3_EveryBlockNormalized ==
    AEDone =>
        /\ AEEncoderStages = 1..8
        /\ \A k \in 1..8 : AEEncoderBlock(k, <<"BatchNormalization">>)

\* C3 amended: the encoder is exactly 8 chained blocks; blocks 2..8 are
\* convolution, normalization, LeakyReLU(0.2); block 1 is convolution and
\* LeakyReLU(0.2) with no normalization layer.
C3_BlocksTwoToEightNormalized ==
    AEDone =>
        /\ AEEncoderStages = 1..8
        /\ AEEncoderBlock(1, <<>>)
        /\ \A k \in 2..8 : AEEncoderBlock(k, <<"BatchNormalization">>)

C3_Witness ==
    /\ AEDone
    /\ ~StageHas(ae_layers, 1, "BatchNormalization")
    /\ StageHas(ae_layers, 8, "BatchNormalization")

(***************************************************************************)
(* C4                                                                      *)
(***************************************************************************)
AEDecoderBlock(k) ==
    /\ StageKinds(ae_layers, k) =
           <<"UpSampling2D", "Conv2D", "BatchNormalization", "Dropout", "Activation">>
    /\ ae_layers[StageLo(ae_layers, k)].size = <<2, 2>>
    /\ ae_layers[StageThe(ae_layers, k, "Conv2D")].kernel_size = <<4, 4>>
    /\ ActivationKind(ae_layers[StageHi(ae_layers, k)]) = <<"relu", <<>>>>
    /\ StageChained(ae_layers, k, StageOut(ae_layers, k - 1))

BothBuilt == (AEDone /\ UReturned) \/ (UDone /\ AEReturned)

\* C2 as stated: side by side the two builders produce the same 8 encoder
\* and 8 decoder stages with equal per-stage configuration (operation kind,
\* filter count, kernel size, stride, normalization, dropout, activation).
C2_SameStageConfiguration ==
    BothBuilt =>
        \A k \in 1..16 : StageConfig(ae_layers, k) = StageConfig(unet_layers, k)

\* C2 amended: the 8 encoder stages and the first 7 decoder stages agree in
\* every setting but the filter count (upsampling, kernel size, stride,
\* padding, normalization, dropout, activation kind); the filter counts
\* differ at encoder stage 5 and decoder stages 3, 5, 6 and 7; the decoder
\* stages 1..7 of UNETGenerator alone hold a Concatenate; make_generator_ae
\* has an eighth full decoder block before its output stage, where de_8 of
\* UNETGenerator is itself the output stage (upsample, convolution to the
\* output channels, tanh, no normalization, no dropout).
C2_SameStageShape ==
    BothBuilt =>
        /\ \A k \in 1..15 : StageShape(ae_layers, k) = StageShape(unet_layers, k)
        /\ {k \in 1..15 : StageFilters(ae_layers, k) # StageFilters(unet_layers, k)}
               = {5, 11, 13, 14, 15}
        /\ \A k \in 9..15 :
               /\ StageHas(unet_layers, k, "Concatenate")
               /\ ~StageHas(ae_layers, k, "Concatenate")
        /\ NumStages(ae_layers) = 17
        /\ NumStages(unet_layers) = 16
        /\ StageShape(ae_layers, 16) = StageShape(ae_layers, 15)
        /\ StageShape(unet_layers, 16) =
               [StageShape(ae_layers, 17) EXCEPT !.upsample = TRUE]
        /\ StageFilters(unet_layers, 16) = StageFilters(ae_layers, 17)

C2_Witness ==
    /\ BothBuilt
    /\ StageFilters(ae_layers, 5) = 512
    /\ StageFilters(unet_layers, 5) = 1024
    /\ StageHas(unet_layers, 9, "Concatenate")

(***************************************************************************)
(* C5                                                                      *)
(***************************************************************************)
LastConv(layers) ==
    CHOOSE c \in DOMAIN layers :
        /\ layers[c].kind = "Conv2D"
        /\ \A i \in DOMAIN layers : layers[i].kind = "Conv2D" => i <= c

\* the last convolution has n filters, alone reads the parameter, and is
\* followed by a tanh activation only, which is the tensor `out` of n channels
OutputStage(layers, param, out) ==
    LET c == LastConv(layers)
    IN  /\ layers[c].filters = num_output
        /\ {i \in DOMAIN layers : param \in layers[i].reads} = {c}
        /\ c + 1 = Len(layers)
        /\ layers[c + 1].kind = "Activation"
        /\ layers[c + 1].activation = "tanh"
        /\ layers[c + 1].inputs = <<c>>
        /\ out = c + 1
        /\ layers[out].shape[1] = num_output

\* C5: in both generators, for every n, the last convolution has exactly n
\* filters, is the only layer that reads the output-channel argument, and is
\* followed by a tanh activation only, so the returned tensor has n channels.
C5_OutputChannels ==
    /\ AEDone => OutputStage(ae_layers, "num_output_filters", generator)
    /\ UDone =>
           /\ unet_generator.outputs = <<unet_env["de_8"]>>
           /\ OutputStage(unet_layers, "num_output_channels", unet_env["de_8"])

C5_Witness ==
    /\ UDone /\ AEReturned
    /\ num_output = 2
    /\ unet_layers[unet_env["de_8"]].shape[1] = 2
    /\ ae_layers[generator].shape[1] = 2

(***************************************************************************)
(* C6                                                                      *)
(***************************************************************************)
\* C6: the 8 encoder stages of UNETGenerator have 64, 128, 256, 512, 512,
\* 512, 512, 512 filters in order, each a 4x4 convolution with stride 2 and
\* 'same' padding; encoder stage 5 is a C512 stage.
C6_EncoderFilterCounts ==
    UDone =>
        \A k \in 1..8 :
            \A c \in UOf(EnNames[k], "Conv2D") :
                /\ unet_layers[c].filters =
                       <<64, 128, 256, 512, 512, 512, 512, 512>>[k]
                /\ unet_layers[c].kernel_size = <<4, 4>>
                /\ unet_layers[c].strides = <<2, 2>>
                /\ unet_layers[c].padding = "same"

(***************************************************************************)
(* C7                                                                      *)
(***************************************************************************)
\* stage k is convolution, activation (no normalization layer)
PlainStage(layers, k) ==
    /\ Len(StageKinds(layers, k)) = 2
    /\ StageKinds(layers, k)[1] = "Conv2D"
    /\ ActivationKind(layers[StageHi(layers, k)]) = LeakyReLU02
    /\ layers[StageHi(layers, k)].inputs = <<StageLo(layers, k)>>

\* stage k is convolution, one BatchNormalization, activation, chained
NormalizedStage(layers, k) ==
    /\ Len(StageKinds(layers, k)) = 3
    /\ StageKinds(layers, k)[1] = "Conv2D"
    /\ StageKinds(layers, k)[2] = "BatchNormalization"
    /\ ActivationKind(layers[StageHi(layers, k)]) = LeakyReLU02
    /\ layers[StageLo(layers, k) + 1].inputs = <<StageLo(layers, k)>>
    /\ layers[StageHi(layers, k)].inputs = <<StageLo(layers, k) + 1>>

SkipsFirstNormOnly(layers) ==
    /\ PlainStage(layers, 1)
    /\ \A k \in 2..8 : NormalizedStage(layers, k)

\* C7: in both generators encoder stage 1 has no BatchNormalization and each
\* of encoder stages 2..8 has exactly one, between its convolution and its
\* LeakyReLU; in make_generator_ae the test filter_size != 64 selects
\* exactly stage 1.
C7_BatchNormSkippedOnFirstOnly ==
    /\ AEDone =>
           /\ SkipsFirstNormOnly(ae_layers)
           /\ \A k \in 1..8 :
                  NeedsBatchNorm(StageFilters(ae_layers, k)) <=> k # 1
    /\ UDone => SkipsFirstNormOnly(unet_layers)

C7_Witness ==
    /\ UDone /\ AEReturned
    /\ ~StageHas(ae_layers, 1, "BatchNormalization")
    /\ ~StageHas(unet_layers, 1, "BatchNormalization")
    /\ StageHas(ae_layers, 2, "BatchNormalization")
    /\ StageHas(unet_layers, 2, "BatchNormalization")

(***************************************************************************)
(* C8                                                                      *)
(***************************************************************************)
\* C8: the decoder of make_generator_ae is CD512-CD512-CD512-C512-C512-C256-
\* C128-C64: filter counts 512, 512, 512, 512, 512, 256, 128, 64 in order,
\* dropout (rate 0.5) in the first three stages and in no other.
C8_DropoutInFirstThreeOnly ==
    AEDone =>
        \A k \in 1..8 :
            /\ StageFilters(ae_layers, 8 + k) =
                   <<512, 512, 512, 512, 512, 256, 128, 64>>[k]
            /\ StageHas(ae_layers, 8 + k, "Dropout") <=> k <= 3
            /\ \A i \in StageIdx(ae_layers, 8 + k) :
                   ae_layers[i].kind = "Dropout" => ae_layers[i].rate = <<5, 10>>

(***************************************************************************)
(* C9                                                                      *)
(***************************************************************************)
\* the only element of a singleton
The(S) == CHOOSE x \in S : TRUE

\* C9: for every k in 1..7 the Concatenate of de_k has exactly the inputs
\* [de_k after dropout, en_(8-k)]; each of en_1..en_7 is consumed by exactly
\* one Concatenate and exactly one next encoder convolution; en_8 is consumed
\* only by the upsampling of de_1; the graph is acyclic with the single
\* input 'unet_input' and the single output de_8.
C9_MirrorSkips ==
    UDone =>
        /\ \A k \in 1..7 :
               /\ Cardinality(UOf(DeNames[k], "Concatenate")) = 1
               /\ Cardinality(UOf(DeNames[k], "Dropout")) = 1
               /\ unet_layers[The(UOf(DeNames[k], "Concatenate"))].inputs =
                      <<The(UOf(DeNames[k], "Dropout")), unet_env[EnNames[8 - k]]>>
        /\ \A j \in 1..7 :
               LET cons == Consumers(unet_layers, unet_env[EnNames[j]])
               IN  /\ Cardinality(cons) = 2
                   /\ Cardinality({i \in cons :
                                      unet_layers[i].kind = "Concatenate"}) = 1
                   /\ Cardinality(UOf(EnNames[j + 1], "Conv2D")) = 1
                   /\ UOf(EnNames[j + 1], "Conv2D") \subseteq cons
        /\ Cardinality(UOf("de_1", "UpSampling2D")) = 1
        /\ Consumers(unet_layers, unet_env["en_8"]) = UOf("de_1", "UpSampling2D")
        /\ \A i \in DOMAIN unet_layers :
               \A j \in DOMAIN unet_layers[i].inputs :
                   unet_layers[i].inputs[j] \in 1..(i - 1)
        /\ {i \in DOMAIN unet_layers : unet_layers[i].inputs = <<>>}
               = {unet_env["input_layer"]}
        /\ unet_layers[unet_env["input_layer"]].kind = "Input"
        /\ unet_layers[unet_env["input_layer"]].name = "unet_input"
        /\ unet_generator.inputs = <<unet_env["input_layer"]>>
        /\ unet_generator.outputs = <<unet_env["de_8"]>>
        /\ {i \in DOMAIN unet_layers : Consumers(unet_layers, i) = {}}
               = {unet_env["de_8"]}

C9_Witness ==
    /\ UDone
    /\ unet_env["en_1"] \in
           {unet_layers[i].inputs[2] : i \in UOf("de_7", "Concatenate")}
    /\ unet_env["en_7"] \in
           {unet_layers[i].inputs[2] : i \in UOf("de_1", "Concatenate")}

(***************************************************************************)
(* C10                                                                     *)
(***************************************************************************)
Height == input_img_dim[2]
Width == input_img_dim[3]
Mult256(s) == s > 0 /\ s % 256 = 0
\* a multiple of 256, or one less
Near256(s) == s > 0 /\ s % 256 \in {0, 255}
URaised == unet_status = "raised"

Concats == {i \in DOMAIN unet_layers : unet_layers[i].kind = "Concatenate"}
ConcatWellFormed(i) ==
    LET a == unet_layers[unet_layers[i].inputs[1]].shape
        b == unet_layers[unet_layers[i].inputs[2]].shape
    IN  /\ a[2] = b[2] /\ a[3] = b[3]
        /\ unet_layers[i].shape = <<a[1] + b[1], a[2], a[3]>>
AllConcatsWellFormed ==
    /\ Cardinality(Concats) = 7
    /\ \A i \in Concats : ConcatWellFormed(i)
OutShape == unet_layers[unet_env["de_8"]].shape

\* C10 as stated: for heights and widths that are positive multiples of 256
\* every one of the 7 concatenations gets inputs of equal height and width
\* and the output has the height and width of the input; for a height or
\* width that is not a multiple of 256 some concatenation gets inputs of
\* different spatial sizes (so the build cannot complete).
C10_OnlyMultiplesOf256Build ==
    /\ (Mult256(Height) /\ Mult256(Width)) =>
           /\ ~URaised
           /\ UDone => /\ AllConcatsWellFormed
                       /\ OutShape[2] = Height /\ OutShape[3] = Width
    /\ ~(Mult256(Height) /\ Mult256(Width)) => ~UDone

\* C10 amended: for positive multiples of 256 as stated; for a height or
\* width that is neither a multiple of 256 nor one less than a multiple of
\* 256 some concatenation gets inputs of different spatial sizes; for a size
\* one less than a multiple of 256 every concatenation is well-formed and
\* the output has that size plus one.
C10_MultiplesOf256AndOneLessBuild ==
    /\ (Near256(Height) /\ Near256(Width)) => ~URaised
    /\ ~(Near256(Height) /\ Near256(Width)) => ~UDone
    /\ URaised =>
           /\ UStmt.op = "Concatenate"
           /\ \/ UShape(UArg(1))[2] # UShape(UArg(2))[2]
              \/ UShape(UArg(1))[3] # UShape(UArg(2))[3]
    /\ UDone =>
           /\ AllConcatsWellFormed
           /\ OutShape[2] = 256 * ((Height + 255) \div 256)
           /\ OutShape[3] = 256 * ((Width + 255) \div 256)
           /\ (Mult256(Height) /\ Mult256(Width)) <=>
                  (OutShape[2] = Height /\ OutShape[3] = Width)

C10_Witness ==
    /\ UDone
    /\ Height % 256 = 255
    /\ Mult256(Width)
    /\ OutShape[2] = Height + 1
    /\ OutShape[3] = Width
====
